---- MODULE Spec2Model ----
(***************************************************************************)
(* Model of src/api/index.js: an Express application with one POST route   *)
(* /api that dispatches on body.action to saveDocument (keyword extraction *)
(* followed by one append to a spreadsheet) or searchDocuments (one read   *)
(* of the spreadsheet followed by a linear case-insensitive scan).         *)
(*                                                                         *)
(* JavaScript text is a sequence of one-character strings.  A JavaScript   *)
(* value that may be absent is a record [t, v]: t is the type tag and v    *)
(* the characters (empty for undefined).                                   *)
(***************************************************************************)
EXTENDS Integers, Sequences, FiniteSets, TLC

VARIABLES store, store0, req, resp

vars == <<store, store0, req, resp>>

----------------------------------------------------------------------------
(* Bounds *)

NumRequests == 2
MaxSeed == 50

Requests == 1..NumRequests

----------------------------------------------------------------------------
(* JavaScript values *)

Undef == [t |-> "undefined", v |-> <<>>]
Str(s) == [t |-> "string", v |-> s]
\* new Date(): the time of the call; which time it is, is left out
Date == [t |-> "date", v |-> <<"now">>]
ErrorObject(m) == [t |-> "error", v |-> m]

IsString(x) == x.t = "string"

\* JavaScript truthiness of a cell: undefined and '' are falsy
Truthy(x) == x.t # "undefined" /\ x.v # <<>>

Min(a, b) == IF a < b THEN a ELSE b

----------------------------------------------------------------------------
(* String functions used by the source *)

LowerChar(c) ==
  CASE c = "A" -> "a"
    [] c = "B" -> "b"
    [] c = "C" -> "c"
    [] OTHER -> c

toLowerCase(s) == [i \in 1..Len(s) |-> LowerChar(s[i])]

includes(s, q) ==
  \E i \in 0..(Len(s) - Len(q)) : SubSeq(s, i + 1, i + Len(q)) = q

substring(s, from, to) == SubSeq(s, from + 1, Min(to, Len(s)))

RECURSIVE trimStart(_)
trimStart(s) ==
  IF s # <<>> /\ Head(s) = " " THEN trimStart(Tail(s)) ELSE s

RECURSIVE trimEnd(_)
trimEnd(s) ==
  IF s # <<>> /\ s[Len(s)] = " " THEN trimEnd(SubSeq(s, 1, Len(s) - 1)) ELSE s

trim(s) == trimEnd(trimStart(s))

----------------------------------------------------------------------------
(* Program constants *)

\* results.slice(0, 50)
MaxResults == 50

\* textContent.substring(0, 2000)
MaxPromptChars == 2000

\* the three headers set on every response of the handler
CorsHeaders ==
  { <<"Access-Control-Allow-Origin", "*">>,
    <<"Access-Control-Allow-Methods", "POST, OPTIONS">>,
    <<"Access-Control-Allow-Headers", "Content-Type">> }

----------------------------------------------------------------------------
(* The tabular store: a sequence of rows, a row a sequence of cells        *)
(* (timestamp, url, title, tags); a read omits trailing empty cells.       *)

\* data[i][j] with JavaScript's 0-based j; a missing cell reads undefined
Cell(row, j) == IF j + 1 <= Len(row) THEN row[j + 1] ELSE Undef

HeaderRow ==
  << Str(<<"t", "s">>), Str(<<"u", "r", "l">>), Str(<<"A", "b", "c">>), Str(<<"c">>) >>

RowAb == << Date, Str(<<"u">>), Str(<<"A", "b">>), Str(<<"a", " ", "B">>) >>
RowC == << Date, Str(<<"v">>), Str(<<"c">>), Str(<<>>) >>
RowShort == << Date, Str(<<"v">>) >>

Rep(row, k) == [i \in 1..k |-> row]

\* contents the spreadsheet can have before the first request: empty, or a
\* header row followed by earlier records
InitialStores ==
  { <<>>,
    <<HeaderRow, RowAb, RowShort, RowC>>,
    <<HeaderRow>> \o Rep(RowC, MaxSeed - 1),
    <<HeaderRow, RowAb>> \o Rep(RowC, MaxSeed) \o <<RowAb>> }

----------------------------------------------------------------------------
(* Requests *)

Methods == { "POST", "OPTIONS" }

NoData ==
  [present |-> FALSE, url |-> Undef, title |-> Undef, content |-> Undef,
   query |-> Undef]

SaveData(u, t, c) ==
  [present |-> TRUE, url |-> u, title |-> t, content |-> c, query |-> Undef]

SearchData(q) ==
  [present |-> TRUE, url |-> Undef, title |-> Undef, content |-> Undef,
   query |-> q]

Text == Str(<<"x", "y">>)

SavePayloads ==
  { SaveData(Str(<<"u">>), Str(<<"A", "b">>), Text),
    SaveData(Str(<<"v">>), Str(<<"c">>), Text),
    SaveData(Str(<<"u">>), Str(<<"A", "b">>), Undef),
    NoData }

Queries == { <<>>, <<"C">> }

SearchPayloads == { SearchData(Str(q)) : q \in Queries } \cup { SearchData(Undef), NoData }

\* req.body after express.json(): action is a string or undefined
Bodies ==
  { [action |-> "saveDocument", data |-> d] : d \in SavePayloads } \cup
  { [action |-> "searchDocuments", data |-> d] : d \in SearchPayloads } \cup
  { [action |-> "deleteDocument", data |-> SaveData(Str(<<"u">>), Str(<<"A", "b">>), Text)],
    [action |-> "undefined", data |-> NoData] }

\* payloads sent along with a pre-flight request
OptionsBodies ==
  { [action |-> "saveDocument", data |-> SaveData(Str(<<"u">>), Str(<<"A", "b">>), Text)],
    [action |-> "undefined", data |-> NoData] }

\* what openai.chat.completions.create can yield: a completion with text,
\* a completion without text, or a rejection with a message
RawReplies == { <<" ", "c", " ", "C", " ">> }

Completions ==
  { [rejected |-> FALSE, content |-> Str(c), message |-> ""] : c \in RawReplies } \cup
  { [rejected |-> FALSE, content |-> Undef, message |-> ""],
    [rejected |-> TRUE, content |-> Undef, message |-> "rate limit"] }

----------------------------------------------------------------------------
(* Responses *)

NoResponse ==
  [sent |-> 0, http |-> 0, headers |-> {}, kind |-> "none", status |-> "none",
   message |-> <<>>, tags |-> Undef, results |-> <<>>]

\* res.setHeader, three times, at the top of the handler
setHeaders(res) == [res EXCEPT !.headers = @ \cup CorsHeaders]

\* res.status(code).json({status, message, tags, results})
json(res, code, status, message, tags, results) ==
  [res EXCEPT !.sent = @ + 1, !.http = code, !.kind = "json", !.status = status,
              !.message = message, !.tags = tags, !.results = results]

\* res.status(200).end()
end(res, code) == [res EXCEPT !.sent = @ + 1, !.http = code, !.kind = "empty"]

\* res.json(result) for the error-shaped object returned by saveDocument
jsonError(res, code, message) == json(res, code, "error", message, Undef, <<>>)

\* the answer the router gives to an OPTIONS request no handler answered:
\* 200 with an Allow header listing the route's methods, and that list as body
optionsResponse(res) ==
  [res EXCEPT !.sent = @ + 1, !.http = 200, !.headers = @ \cup { <<"Allow", "POST">> },
              !.kind = "text", !.message = <<"POST">>]

\* app.post('/api', ...): the handler is registered for POST only
Routed(method) == method = "POST"

----------------------------------------------------------------------------
(* getTagsFromOpenAI *)

\* the catch block returning the message text instead of the error object
getTagsFromOpenAI_returnsMessage(textContent, completion) ==
  IF ~IsString(textContent)
    THEN Str(<<"OpenAI Error: ", "textContent.substring is not a function">>)
  ELSE IF completion.rejected
    THEN Str(<<"OpenAI Error: ", completion.message>>)
  ELSE IF ~IsString(completion.content)
    THEN Str(<<"OpenAI Error: ", "cannot read properties of null">>)
  ELSE Str(trim(completion.content.v))

\* the function as a whole: the result for a text and for what the
\* completion call yields.  Everything thrown inside its try block becomes
\* the error-shaped object.
getTagsFromOpenAI(textContent, completion) ==
  IF ~IsString(textContent)
    THEN ErrorObject(<<"OpenAI Error: ", "textContent.substring is not a function">>)
  ELSE IF completion.rejected
    THEN ErrorObject(<<"OpenAI Error: ", completion.message>>)
  ELSE IF ~IsString(completion.content)
    THEN ErrorObject(<<"OpenAI Error: ", "cannot read properties of null">>)
  ELSE Str(trim(completion.content.v))

\* the text placed in the prompt
promptText(textContent) == substring(textContent.v, 0, MaxPromptChars)

----------------------------------------------------------------------------
(* searchDocuments, the part after the read *)

record(row) == [url |-> Cell(row, 1), title |-> Cell(row, 2), tags |-> Cell(row, 3)]

rowMatches(row, lowerCaseQuery) ==
  LET rowTitle == IF Truthy(Cell(row, 2)) THEN toLowerCase(Cell(row, 2).v) ELSE <<>>
      rowTags == IF Truthy(Cell(row, 3)) THEN toLowerCase(Cell(row, 3).v) ELSE <<>>
  IN  includes(rowTitle, lowerCaseQuery) \/ includes(rowTags, lowerCaseQuery)

\* the loop with the bound i < data.length - 1
RECURSIVE searchLoop_skipsLast(_, _, _, _)
searchLoop_skipsLast(data, lowerCaseQuery, i, results) ==
  IF i < Len(data) - 1
    THEN searchLoop_skipsLast(data, lowerCaseQuery, i + 1,
                              IF rowMatches(data[i + 1], lowerCaseQuery)
                                THEN Append(results, record(data[i + 1]))
                                ELSE results)
    ELSE results

\* for (let i = 1; i < data.length; i++): data[i] is data[i + 1] here
RECURSIVE searchLoop(_, _, _, _)
searchLoop(data, lowerCaseQuery, i, results) ==
  IF i < Len(data)
    THEN searchLoop(data, lowerCaseQuery, i + 1,
                    IF rowMatches(data[i + 1], lowerCaseQuery)
                      THEN Append(results, record(data[i + 1]))
                      ELSE results)
    ELSE results

\* slice with the end index taken as inclusive
slice_offByOne(results, from, to) == SubSeq(results, from + 1, Min(to + 1, Len(results)))

slice(results, from, to) == SubSeq(results, from + 1, Min(to, Len(results)))

\* response.data.values of a read: absent when the sheet has no cells
valuesOf(sheet) == [present |-> sheet # <<>>, rows |-> sheet]

searchResults(values, query) ==
  LET data == IF values.present THEN values.rows ELSE <<>>
  IN  slice(searchLoop(data, toLowerCase(query.v), 1, <<>>), 0, MaxResults)

----------------------------------------------------------------------------
(* State *)

\* store  : the rows of the spreadsheet
\* store0 : the rows it had before the first request (history)
\* req[r] : request r: its position (pc), what it sent, the handler's
\*          locals (prompt, tags, row) and history (after: for a search,
\*          the requests already answered when r arrived; completion: what the
\*          completion call yielded; log: the outbound calls made for r and
\*          their outcomes; rowAt: the place of r's row in the store;
\*          branch: the code that produced the response)
\* resp[r]: the response object of request r

NoCompletion == [rejected |-> FALSE, content |-> Undef, message |-> ""]

IdleRequest ==
  [pc |-> "idle", method |-> "none", action |-> "undefined", data |-> NoData,
   prompt |-> <<>>, completion |-> NoCompletion, tags |-> Undef, row |-> <<>>,
   after |-> {}, log |-> <<>>, rowAt |-> 0, branch |-> "none"]

Init ==
  /\ store \in InitialStores
  /\ store0 = store
  /\ req = [r \in Requests |-> IdleRequest]
  /\ resp = [r \in Requests |-> NoResponse]

Answered == { p \in Requests : req[p].pc = "done" }

----------------------------------------------------------------------------
(* The route handler.  Each operator takes the request state q and the     *)
(* response object res and gives the pair of their new values.             *)

\* if (req.method === 'OPTIONS') return res.status(200).end()
preflight(q, res) ==
  <<[q EXCEPT !.pc = "done", !.branch = "preflight"], end(res, 200)>>

\* the else branch without status(400)
invalidAction_noStatus(q, res) ==
  <<[q EXCEPT !.pc = "done", !.branch = "invalid"],
    jsonError(res, 200, <<"Invalid action">>)>>

\* the else branch of the dispatch
invalidAction(q, res) ==
  <<[q EXCEPT !.pc = "done", !.branch = "invalid"],
    jsonError(res, 400, <<"Invalid action">>)>>

\* a catch block that answers nothing
catchError_silent(q, res, message) ==
  <<[q EXCEPT !.pc = "done", !.branch = "catch"], res>>

\* catch (error) of the handler
catchError(q, res, message) ==
  <<[q EXCEPT !.pc = "done", !.branch = "catch"], jsonError(res, 500, message)>>

\* saveDocument up to the completion call
saveDocumentStart(q, res) ==
  IF ~q.data.present
    \* destructuring undefined throws
    THEN catchError(q, res, <<"cannot destructure data">>)
  ELSE IF ~IsString(q.data.content)
    \* getTagsFromOpenAI catches before any call is made
    THEN LET tags == getTagsFromOpenAI(q.data.content, NoCompletion)
         IN  <<[q EXCEPT !.pc = "done", !.tags = tags, !.branch = "save"],
               jsonError(res, 200, tags.v)>>
  ELSE <<[q EXCEPT !.pc = "extracting", !.prompt = promptText(q.data.content),
                   !.log = <<"extract">>], res>>

\* the row with url and title in each other's column
newRow_swapped(data, tags) == << Date, data.title, data.url, tags >>

\* the row handed to append
newRow(data, tags) == << Date, data.url, data.title, tags >>

\* saveDocument without the early return on the error object
saveDocumentTags_noEarlyReturn(q, res, completion) ==
  LET tags == getTagsFromOpenAI(q.data.content, completion)
      q1 == [q EXCEPT !.completion = completion, !.tags = tags]
  IN  <<[q1 EXCEPT !.pc = "appending", !.row = newRow(q.data, tags),
                   !.log = @ \o <<IF tags.t = "error" THEN "extract.err" ELSE "extract.ok",
                                  "append">>], res>>

\* saveDocument from the return of the completion call to the append call
saveDocumentTags(q, res, completion) ==
  LET tags == getTagsFromOpenAI(q.data.content, completion)
      q1 == [q EXCEPT !.completion = completion, !.tags = tags]
  IN  IF tags.t = "error"
        THEN <<[q1 EXCEPT !.pc = "done", !.branch = "save",
                          !.log = Append(@, "extract.err")],
               jsonError(res, 200, tags.v)>>
        ELSE <<[q1 EXCEPT !.pc = "appending", !.row = newRow(q.data, tags),
                          !.log = @ \o <<"extract.ok", "append">>], res>>

\* saveDocument after the append: its result, or the throw
saveDocumentDone(q, res, ok, at) ==
  IF ok
    THEN <<[q EXCEPT !.pc = "done", !.branch = "save", !.rowAt = at,
                     !.log = Append(@, "append.ok")],
           json(res, 200, "success", <<"Document saved!">>, q.tags, <<>>)>>
    ELSE catchError([q EXCEPT !.log = Append(@, "append.err")], res, <<"append failed">>)

\* searchDocuments(data.query) up to the read
searchDocumentsStart(q, res) ==
  IF ~q.data.present
    \* data.query on undefined throws
    THEN catchError(q, res, <<"cannot read query of undefined">>)
    ELSE <<[q EXCEPT !.pc = "reading", !.log = <<"read">>], res>>

\* searchDocuments after the read: a failed read throws, and so does
\* toLowerCase of a query that is not a string
searchDocumentsDone(q, res, ok, sheet) ==
  IF ~ok
    THEN catchError([q EXCEPT !.log = Append(@, "read.err")], res, <<"read failed">>)
  ELSE IF ~IsString(q.data.query)
    THEN catchError([q EXCEPT !.log = Append(@, "read.ok")], res,
                    <<"query.toLowerCase is not a function">>)
  ELSE <<[q EXCEPT !.pc = "done", !.branch = "search", !.log = Append(@, "read.ok")],
         json(res, 200, "success", <<>>, Undef,
              searchResults(valuesOf(sheet), q.data.query))>>

\* the handler from its first line to its first await or its response
handler(q, res0) ==
  LET res == setHeaders(res0)
  IN  IF q.method = "OPTIONS" THEN preflight(q, res)
      ELSE IF q.action = "saveDocument" THEN saveDocumentStart(q, res)
      ELSE IF q.action = "searchDocuments" THEN searchDocumentsStart(q, res)
      ELSE invalidAction(q, res)

\* a request the router hands to no handler: its body is read by no code
unrouted(q, res) ==
  <<[q EXCEPT !.pc = "done", !.action = "undefined", !.data = NoData,
              !.branch = "router"], optionsResponse(res)>>

----------------------------------------------------------------------------
(* Actions *)

\* A request arrives: the router picks the handler by method, and the
\* handler runs to its first await or to its response.
Arrive(r) ==
  /\ req[r].pc = "idle"
  /\ \A p \in Requests : p < r => req[p].pc # "idle"
  /\ \E method \in Methods :
       \E body \in (IF method = "POST" THEN Bodies ELSE OptionsBodies) :
         LET q == [req[r] EXCEPT !.method = method, !.action = body.action,
                                 !.data = body.data,
                                 !.after = IF body.action = "searchDocuments"
                                             THEN Answered ELSE {}]
             out == IF Routed(method) THEN handler(q, resp[r])
                                      ELSE unrouted(q, resp[r])
         IN  /\ req' = [req EXCEPT ![r] = out[1]]
             /\ resp' = [resp EXCEPT ![r] = out[2]]
  /\ UNCHANGED <<store, store0>>

\* The completion call returns: getTagsFromOpenAI finishes and saveDocument
\* either returns the error-shaped object or issues the append.
ExtractReturn(r) ==
  /\ req[r].pc = "extracting"
  /\ \E completion \in Completions :
       LET out == saveDocumentTags(req[r], resp[r], completion)
       IN  /\ req' = [req EXCEPT ![r] = out[1]]
           /\ resp' = [resp EXCEPT ![r] = out[2]]
  /\ UNCHANGED <<store, store0>>

\* values.update in place of values.append: the row overwrites the top of the range
append_update(sheet, row) ==
  IF sheet = <<>> THEN <<row>> ELSE [sheet EXCEPT ![1] = row]

\* the effect of values.append on the sheet
append(sheet, row) == Append(sheet, row)

\* The append returns: on success the row is in the sheet and saveDocument
\* returns the success result; on failure the handler's catch answers.
AppendReturn(r) ==
  /\ req[r].pc = "appending"
  /\ \E ok \in BOOLEAN :
       LET out == saveDocumentDone(req[r], resp[r], ok, Len(store'))
       IN  /\ store' = IF ok THEN append(store, req[r].row) ELSE store
           /\ req' = [req EXCEPT ![r] = out[1]]
           /\ resp' = [resp EXCEPT ![r] = out[2]]
  /\ UNCHANGED store0

\* The read returns and the scan runs over the rows read.
ReadReturn(r) ==
  /\ req[r].pc = "reading"
  /\ \E ok \in BOOLEAN :
       LET out == searchDocumentsDone(req[r], resp[r], ok, store)
       IN  /\ req' = [req EXCEPT ![r] = out[1]]
           /\ resp' = [resp EXCEPT ![r] = out[2]]
  /\ UNCHANGED <<store, store0>>

Next ==
  \E r \in Requests :
    \/ Arrive(r)
    \/ ExtractReturn(r)
    \/ AppendReturn(r)
    \/ ReadReturn(r)

Spec == Init /\ [][Next]_vars

TypeOK ==
  /\ Len(store) >= Len(store0)
  /\ \A r \in Requests :
       /\ req[r].pc \in {"idle", "extracting", "appending", "reading", "done"}
       /\ resp[r].sent \in 0..1

----------------------------------------------------------------------------
(* Vocabulary of the properties *)

Done(r) == req[r].pc = "done"
IsPost(r) == req[r].method = "POST"
IsSave(r) == IsPost(r) /\ req[r].action = "saveDocument"
IsSearch(r) == IsPost(r) /\ req[r].action = "searchDocuments"

Range(f) == { f[i] : i \in DOMAIN f }
Count(f, x) == Cardinality({ i \in DOMAIN f : f[i] = x })

\* the payload has url, title and content
FullPayload(r) ==
  /\ req[r].data.present
  /\ IsString(req[r].data.url)
  /\ IsString(req[r].data.title)
  /\ IsString(req[r].data.content)

SavedOk(r) == IsSave(r) /\ Done(r) /\ resp[r].status = "success"

\* q occurs in s, letters compared without regard to case
OccursCI(q, s) ==
  \E k \in 0..(Len(s) - Len(q)) :
    \A j \in 1..Len(q) : LowerChar(s[k + j]) = LowerChar(q[j])

TextOf(cell) == IF cell.t = "string" THEN cell.v ELSE <<>>

\* the row's title field or tags field contains q
RowContains(row, q) ==
  OccursCI(q, TextOf(Cell(row, 2))) \/ OccursCI(q, TextOf(Cell(row, 3)))

RecordOf(row) == [url |-> Cell(row, 1), title |-> Cell(row, 2), tags |-> Cell(row, 3)]

\* the first MaxResults, in store order, of the rows after the first that contain q
ExpectedResults(sheet, q) ==
  LET Test(row) == RowContains(row, q)
      hits == IF sheet = <<>> THEN <<>> ELSE SelectSeq(Tail(sheet), Test)
  IN  [k \in 1..Min(MaxResults, Len(hits)) |-> RecordOf(hits[k])]

----------------------------------------------------------------------------
(* C1 *)

\* the step in which the append of request r returns successfully
AppendSucceeds(r) ==
  /\ req[r].pc = "appending"
  /\ req'[r].pc = "done"
  /\ req'[r].log = Append(req[r].log, "append.ok")

\* C1: when a saveDocument request with url, title and content, whose
\* extraction gave the tag string T, has its append succeed, the store
\* becomes the store before with the one row [timestamp, url, title, T] added
\* at the end, and the response is a 200 with status "success" and tags T.
C1_SaveAppendsRow ==
  [][ \A r \in Requests :
        (FullPayload(r) /\ IsString(req[r].tags) /\ AppendSucceeds(r)) =>
          /\ store' = store \o << << Date, req[r].data.url, req[r].data.title,
                                    req[r].tags >> >>
          /\ resp'[r].sent = 1
          /\ resp'[r].kind = "json"
          /\ resp'[r].status = "success"
          /\ resp'[r].tags = req[r].tags ]_vars

C1_Witness ==
  \E r \in Requests :
    /\ SavedOk(r) /\ FullPayload(r)
    /\ req[r].log = <<"extract", "extract.ok", "append", "append.ok">>
    /\ Len(store) = Len(store0) + 1
    /\ store[Len(store)][4] = Str(<<"c", " ", "C">>)
    /\ resp[r].tags = Str(<<"c", " ", "C">>)

----------------------------------------------------------------------------
(* C2 *)

\* extraction failed for request r: the text to extract from is missing, or
\* the completion call has returned a rejection or a completion without text
ExtractionFailed(r) ==
  /\ IsSave(r) /\ req[r].data.present
  /\ \/ ~IsString(req[r].data.content)
     \/ /\ Len(req[r].log) >= 2
        /\ req[r].completion.rejected \/ ~IsString(req[r].completion.content)

\* C2: a saveDocument request whose keyword extraction fails makes no append
\* call and adds no row, and its response body has status "error" and a
\* message that carries the extraction failure message.
C2_ExtractionFailureNoAppend ==
  \A r \in Requests :
    ExtractionFailed(r) =>
      /\ Done(r)
      /\ "append" \notin Range(req[r].log)
      /\ "append.ok" \notin Range(req[r].log)
      /\ req[r].row = <<>>
      /\ \A i \in (Len(store0) + 1)..Len(store) :
           \E p \in Requests \ {r} : SavedOk(p) /\ store[i] = req[p].row
      /\ resp[r].sent = 1
      /\ resp[r].kind = "json"
      /\ resp[r].status = "error"
      /\ resp[r].message[1] = "OpenAI Error: "
      /\ req[r].completion.rejected =>
           resp[r].message[2] = req[r].completion.message

C2_Witness ==
  \E r \in Requests :
    /\ ExtractionFailed(r)
    /\ req[r].log = <<"extract", "extract.err">>
    /\ req[r].completion.rejected
    /\ resp[r].message = <<"OpenAI Error: ", "rate limit">>
    /\ store = store0

----------------------------------------------------------------------------
(* C3 *)

\* the step in which the read of request r returns and the search answers
\* with results
SearchAnswers(r) ==
  /\ req[r].pc = "reading"
  /\ req'[r].pc = "done"
  /\ resp'[r].status = "success"

\* C3: a searchDocuments request with a string query q returns exactly the
\* first 50 (or all, if fewer), in store order, of the rows at index >= 1
\* whose title or tags contains q without regard to case: at most 50 records,
\* each matching q, none of them the row at index 0.
C3_SearchResultsExact ==
  [][ \A r \in Requests :
        (IsString(req[r].data.query) /\ SearchAnswers(r)) =>
          /\ resp'[r].results = ExpectedResults(store, req[r].data.query.v)
          /\ Len(resp'[r].results) <= 50
          /\ \A k \in 1..Len(resp'[r].results) :
               \E i \in 2..Len(store) :
                 /\ resp'[r].results[k] = RecordOf(store[i])
                 /\ RowContains(store[i], req[r].data.query.v)
          /\ Len(store) <= 1 => resp'[r].results = <<>> ]_vars

\* a search answered with 50 records although more rows match, the header
\* row among the rows containing the query
C3_Witness ==
  \E r \in Requests :
    /\ IsSearch(r) /\ Done(r) /\ resp[r].status = "success"
    /\ req[r].data.query = Str(<<"C">>)
    /\ Len(resp[r].results) = 50
    /\ Cardinality({ i \in 2..Len(store) : RowContains(store[i], <<"C">>) }) > 50
    /\ RowContains(store[1], <<"C">>)
    /\ RecordOf(store[2]) \notin Range(resp[r].results)

----------------------------------------------------------------------------
(* C4 *)

InvalidAction(r) ==
  IsPost(r) /\ req[r].action \notin {"saveDocument", "searchDocuments"}

\* C4: a POST request whose action is absent or is neither "saveDocument"
\* nor "searchDocuments" is answered at once with HTTP 400 and body status
\* "error"; no extraction call, read or append is made for it.
C4_InvalidActionRejected ==
  \A r \in Requests :
    InvalidAction(r) =>
      /\ Done(r)
      /\ resp[r].sent = 1
      /\ resp[r].http = 400
      /\ resp[r].kind = "json"
      /\ resp[r].status = "error"
      /\ req[r].log = <<>>
      /\ req[r].row = <<>>

C4_Witness ==
  /\ \E r \in Requests :
       InvalidAction(r) /\ req[r].action = "undefined" /\ resp[r].http = 400
  /\ \E r \in Requests :
       InvalidAction(r) /\ req[r].action = "deleteDocument" /\ resp[r].http = 400

----------------------------------------------------------------------------
(* C5 *)

\* C5 as stated: every response with status "error" has HTTP status 400 when
\* the action is invalid and 500 for any other failure, a keyword-extraction
\* failure included.
C5_ErrorStatusCodes ==
  \A r \in Requests :
    (Done(r) /\ resp[r].status = "error") =>
      resp[r].http = (IF InvalidAction(r) THEN 400 ELSE 500)

----------------------------------------------------------------------------
(* C6 *)

\* C6 as stated: an OPTIONS request is answered by the handler's pre-flight
\* branch with HTTP 200, the three cross-origin headers and an empty body,
\* with no external call.
C6_PreflightAnswered ==
  \A r \in Requests :
    (req[r].method = "OPTIONS") =>
      /\ Done(r)
      /\ req[r].branch = "preflight"
      /\ resp[r].http = 200
      /\ CorsHeaders \subseteq resp[r].headers
      /\ resp[r].kind = "empty"
      /\ req[r].log = <<>>

----------------------------------------------------------------------------
(* C7 *)

\* the rows present now that were not there before the first request
NewRows == SubSeq(store, Len(store0) + 1, Len(store))

\* the step in which request r is answered with an error
AnswersError(r) == ~Done(r) /\ resp'[r].sent > resp[r].sent /\ resp'[r].status = "error"

\* C7: a request is never answered twice, it is answered exactly once when
\* its handling ends, and a request answered with status "error" has appended
\* no row: the step that answers it leaves the store as it was, and so did
\* every earlier step taken for it.
C7_OneResponseNoPartialWrite ==
  /\ [](\A r \in Requests :
          /\ resp[r].sent <= 1
          /\ Done(r) <=> resp[r].sent = 1
          /\ (Done(r) /\ resp[r].status = "error") =>
               /\ "append.ok" \notin Range(req[r].log)
               /\ Len(NewRows) = Cardinality({ p \in Requests \ {r} : SavedOk(p) }))
  /\ [][ \A r \in Requests : AnswersError(r) => store' = store ]_vars

\* an error answered after a failed append, the store still as it was
C7_Witness ==
  \E r \in Requests :
    /\ Done(r) /\ resp[r].status = "error" /\ resp[r].http = 500
    /\ req[r].log = <<"extract", "extract.ok", "append", "append.err">>
    /\ store = store0

----------------------------------------------------------------------------
(* C8 *)

\* every append call in the log comes after an extraction call that succeeded
AppendAfterExtraction(log) ==
  \A i \in DOMAIN log :
    log[i] = "append" =>
      \E j \in 1..(i - 1) :
        /\ log[j] = "extract.ok"
        /\ \E k \in 1..(j - 1) : log[k] = "extract"

SaveCallsInOrder(r) ==
  /\ Count(req[r].log, "extract") <= 1
  /\ Count(req[r].log, "append") <= 1
  /\ Count(req[r].log, "read") = 0
  /\ AppendAfterExtraction(req[r].log)
  /\ (Done(r) /\ FullPayload(r)) => Count(req[r].log, "extract") = 1

\* C8 as stated: a saveDocument request with a valid payload makes exactly
\* one extraction call and at most one append, the append only after the
\* extraction succeeded; every searchDocuments request makes exactly one read
\* and no append.
C8_CallCounts ==
  \A r \in Requests :
    /\ IsSave(r) => SaveCallsInOrder(r)
    /\ (IsSearch(r) /\ Done(r)) =>
         /\ Count(req[r].log, "read") = 1
         /\ Count(req[r].log, "append") = 0
         /\ Count(req[r].log, "extract") = 0

\* C8 amended: the same for saveDocument; a searchDocuments request whose
\* body has a data object makes exactly one read and no append, and one whose
\* body has no data object makes no read at all.
C8_CallCountsWithPayload ==
  \A r \in Requests :
    /\ IsSave(r) => SaveCallsInOrder(r)
    /\ (IsSearch(r) /\ Done(r)) =>
         /\ Count(req[r].log, "read") = (IF req[r].data.present THEN 1 ELSE 0)
         /\ Count(req[r].log, "append") = 0
         /\ Count(req[r].log, "extract") = 0

\* a save that made both calls in order and a search that read once
C8_Witness ==
  /\ \E r \in Requests :
       IsSave(r) /\ Done(r) /\ FullPayload(r)
         /\ req[r].log = <<"extract", "extract.ok", "append", "append.ok">>
  /\ \E r \in Requests :
       IsSearch(r) /\ Done(r) /\ req[r].log = <<"read", "read.ok">>

----------------------------------------------------------------------------
(* C9 *)

IsPrefix(s, t) == Len(s) <= Len(t) /\ SubSeq(t, 1, Len(s)) = s

Quiescent == \A r \in Requests : req[r].pc \in {"idle", "done"}

Saved == { r \in Requests : SavedOk(r) }

\* C9: under any interleaving the store only grows at its end: each step
\* leaves the earlier contents as a prefix; and when no request is in flight
\* the store has its initial rows plus one row per saveDocument request
\* answered with success, that request's url, title and tags in it.
C9_AppendOnly ==
  /\ [][IsPrefix(store, store')]_vars
  /\ [](IsPrefix(store0, store))
  /\ [](Quiescent =>
          /\ Len(store) = Len(store0) + Cardinality(Saved)
          /\ \E f \in [Saved -> (Len(store0) + 1)..Len(store)] :
               /\ \A a, b \in Saved : a # b => f[a] # f[b]
               /\ \A a \in Saved :
                    store[f[a]] = << Date, req[a].data.url, req[a].data.title,
                                     req[a].tags >>)

\* two saves in flight together, the later arrival's row ahead of the earlier's
C9_Witness ==
  /\ NumRequests >= 2
  /\ SavedOk(1) /\ SavedOk(2)
  /\ req[1].data.url # req[2].data.url
  /\ store[Len(store0) + 1] = req[2].row
  /\ store[Len(store0) + 2] = req[1].row

----------------------------------------------------------------------------
(* C10 *)

\* search s arrived after save r was answered with success, s is answered
\* with results, and its query occurs in r's title or tags
SearchAfterSave(s, r) ==
  /\ IsSearch(s) /\ Done(s) /\ resp[s].status = "success"
  /\ SavedOk(r) /\ r \in req[s].after
  /\ IsString(req[s].data.query)
  /\ \/ OccursCI(req[s].data.query.v, TextOf(req[r].data.title))
     \/ OccursCI(req[s].data.query.v, TextOf(req[r].tags))

SavedRecord(r) ==
  [url |-> req[r].data.url, title |-> req[r].data.title, tags |-> resp[r].tags]

\* C10 as stated: for every initial store and every earlier saves, a search
\* started after a successful save, with a query occurring in the saved title
\* or tags, returns the saved record.
C10_SavedThenFound ==
  \A s, r \in Requests :
    SearchAfterSave(s, r) => SavedRecord(r) \in Range(resp[s].results)

\* the rows at index >= 1 ahead of r's row that contain q
MatchesAhead(r, q) ==
  { i \in 2..(req[r].rowAt - 1) : RowContains(store[i], q) }

\* C10 amended: such a search, when it is answered with results, returns the
\* saved record provided the store was not empty when the row was appended
\* (the row is not at index 0) and fewer than 50 rows at index >= 1 ahead of
\* it contain the query.
C10_SavedThenFoundWithinLimit ==
  \A s, r \in Requests :
    ( /\ SearchAfterSave(s, r)
      /\ req[r].rowAt >= 2
      /\ Cardinality(MatchesAhead(r, req[s].data.query.v)) < MaxResults )
    => SavedRecord(r) \in Range(resp[s].results)

\* the saved record returned as the last of 50 results
C10_Witness ==
  \E s, r \in Requests :
    /\ SearchAfterSave(s, r)
    /\ req[r].rowAt >= 2
    /\ Cardinality(MatchesAhead(r, req[s].data.query.v)) = MaxResults - 1
    /\ Len(resp[s].results) = MaxResults
    /\ resp[s].results[MaxResults] = SavedRecord(r)

====
